---- MODULE Spec2Model ----
(***************************************************************************)
(* The imaging_viewer tool of ZendarSDK (Tools/imaging_viewer): main()     *)
(* walks the requested radar names, streams each input file through a     *)
(* generator (convert_image_stream / convert_point_cloud_stream), overlays *)
(* the metadata and hands every frame to the video writer and the on      *)
(* screen display.  One action per statement group of main(); the         *)
(* generators advance one record per step.                                *)
(*                                                                         *)
(* Strings are sequences of tokens, so that concatenation and join are     *)
(* computed; None is the empty sequence (or 0 for an object reference).    *)
(* RadarDataStreamer, RadarImageStreamDisplay, VideoWriter and             *)
(* draw_timestamp are imported modules that are not part of the two       *)
(* source files: their behaviour is taken from the specification.         *)
(***************************************************************************)
EXTENDS Integers, Sequences, FiniteSets, TLC

\* ---------------------------------------------------------------- bounds
\* at most this many --radar-name arguments
MaxRadars == 2
\* at most this many records in one input file
MaxRecords == 2

\* ------------------------------------------------------------- constants
\* default imaging area of the point cloud view
xmin == 0
xmax == 60
ymin == -30
ymax == 30
\* im_res = 0.1, kept as its reciprocal (pixels per meter)
im_res_inv == 10

None == <<>>

VARIABLES
    pc,                 \* position of main()
    output_dir,         \* args.output_dir (None or a directory)
    point_cloud,        \* args.point_cloud
    radar_name,         \* args.radar_name
    fs,                 \* the input paths that exist on disk
    fig,                \* the matplotlib figure: "none" or "shown"
    artist,             \* None, or the displayed image: its shape and the frame it was made for
    input_output_paths, \* list of IOPath
    idx,                \* index of io_path in input_output_paths (0: loop not entered)
    video_writer,       \* 0 (None) or the session whose VideoWriter it refers to
    data_streamer,      \* the generator: "None", "created", "running", "suspended", "finished"
    reader,             \* per session: the RadarDataStreamer and its file handle
    stream,             \* per session: the records of the input file, known once opened
    encoder,            \* per session: the VideoWriter object
    raw_data,           \* loop variable: the decoded record
    im_rgb,             \* loop variable: the raster frame
    im_height,
    im_width,
    displayed,          \* frames handed to artist.set_data, in order
    err,                \* the exception that ended main(): "none" or its kind
    rpc,                \* position in the rendering of one point cloud record
    pts,                \* pc.point_cloud of that record
    im_pts,             \* the points in raster coordinates
    kpt,                \* index of the point the drawing loop is at
    pc_image            \* the raster: the set of (row, column) pixels painted

\* the variables of the rendering of one point cloud record
rvars == <<rpc, pts, im_pts, kpt, pc_image>>

vars == <<pc, output_dir, point_cloud, radar_name, fs, fig, artist,
          input_output_paths, idx, video_writer, data_streamer, reader, stream,
          encoder, raw_data, im_rgb, im_height, im_width, displayed, err, rvars>>

\* ----------------------------------------------------------------- paths
RadarNamePool == <<"radar1", "radar2", "radar3", "radar4">>

\* os.path.join(dir, file)
join(dir, file) == dir \o <<"/">> \o file

input_dir == <<"in">>

\* one IOPath of main(), built from a radar name
MkIOPath(name) ==
    LET output_path == IF output_dir # None
                       THEN join(output_dir, <<name, ".mp4">>)
                       ELSE None
    IN  IF point_cloud
        THEN [image_pbs_path |-> None,
              pc_pbs_path    |-> join(input_dir, <<name, "_points.pbs">>),
              output_path    |-> output_path]
        ELSE [image_pbs_path |-> join(input_dir, <<name, "_images.pbs">>),
              pc_pbs_path    |-> None,
              output_path    |-> output_path]

\* point_cloud_viewer.py, lines 48-54: the (pbs_path, output_path) pair the
\* second tool builds from a radar name
PcvIOPath(name) ==
    <<join(input_dir, <<name, "_points.pbs">>),
      IF output_dir # None THEN join(output_dir, <<name, "_points.mp4">>) ELSE None>>

\* the input file main() opens for an IOPath
InputPathOf(io_path) ==
    IF io_path.image_pbs_path # None THEN io_path.image_pbs_path
                                     ELSE io_path.pc_pbs_path

\* the input files a run with these arguments can look for
CandidatePaths(names, pcmode) ==
    { join(input_dir, <<names[i], IF pcmode THEN "_points.pbs" ELSE "_images.pbs">>) :
        i \in 1..Len(names) }

\* --------------------------------------------------------------- records
\* image grids come in two raster sizes (height, width)
ImageShapes == { <<1, 2>>, <<2, 1>> }

\* raster size of the point cloud view: (imsize_y, imsize_x, 3)
imsize_y == (ymax - ymin) * im_res_inv
imsize_x == (xmax - xmin) * im_res_inv

\* one point inside the imaging window: (x, y, aux), in decimeters
PointLists == { <<>>, << <<100, -50, 0>> >> }

\* a record of session j at position i; frame ids grow with the position, the
\* timestamp is in milliseconds
MkRecord(kind, j, i, shape, plist) ==
    [kind |-> kind, frame_id |-> 10 * j + i, timestamp |-> 1000 * i + 137 * j,
     shape |-> shape, point_cloud |-> plist]

ValidBodies(pcmode) ==
    IF pcmode THEN { [kind |-> "points", shape |-> <<0, 0>>, pts |-> p] : p \in PointLists }
              ELSE { [kind |-> "image", shape |-> s, pts |-> <<>>] : s \in ImageShapes }

\* a record the reader cannot deliver: bytes that do not decode, or a length
\* prefix that exceeds the rest of the file
FaultyBodies ==
    { [kind |-> k, shape |-> <<0, 0>>, pts |-> <<>>] : k \in {"undecodable", "truncated"} }

\* the files of at most MaxRecords records: valid records, then possibly one
\* faulty record (nothing after it is ever read)
Streams(j, pcmode) ==
    LET Valid(n) == [1..n -> ValidBodies(pcmode)]
        Mk(bs)   == [i \in 1..Len(bs) |->
                        MkRecord(bs[i].kind, j, i, bs[i].shape, bs[i].pts)]
    IN  UNION { { Mk(bs) : bs \in Valid(n) } : n \in 0..MaxRecords }
        \cup
        UNION { { Mk(bs \o <<f>>) : bs \in Valid(n), f \in FaultyBodies } :
                  n \in 0..(MaxRecords - 1) }

IsFaulty(rec) == rec.kind \in {"undecodable", "truncated"}

ErrorOf(rec) == IF rec.kind = "truncated" THEN "CorruptStreamError" ELSE "DecodeError"

\* ---------------------------------------------------------------- frames
NoRecord == MkRecord("none", 0, 0, <<0, 0>>, <<>>)

NoFrame == [session |-> 0, rec |-> 0, shape |-> <<0, 0>>, label |-> None]

\* RadarImageStreamDisplay.__call__: the RGB view of an image grid, of the
\* grid's raster size
RadarImageStreamDisplay(j, i, rec) ==
    [session |-> j, rec |-> i, shape |-> rec.shape, label |-> None]

\* the pc_image of convert_point_cloud_stream: a raster of the fixed size
PointCloudImage(j, i, rec) ==
    [session |-> j, rec |-> i, shape |-> <<imsize_y, imsize_x>>, label |-> None]

\* "%2.2f" with the digits after the second decimal cut off
Fmt2Floor(ms) == ms \div 10

\* "%2.2f" % timestamp, for a timestamp in milliseconds: hundredths, rounded
Fmt2(ms) == (ms + 5) \div 10

\* overlay_metadata: draw_timestamp(im_rgb, frame_id + ":" + timestamp)
overlay_metadata(raw, im) ==
    [im EXCEPT !.label = <<raw.frame_id, ":", Fmt2(raw.timestamp)>>]

\* line 102-103: fig.gca().imshow(np.zeros(im_rgb.shape)): a new image object
\* of the frame's shape, identified here by the frame it was created for
imshow(im) == im.shape \o <<im.session, im.rec>>

\* --------------------------------------------------------------- objects
NoReader == [state |-> "unopened", pos |-> 0, closes |-> 0]

NoEncoder == [state |-> "none", path |-> None, width |-> 0, height |-> 0,
              frames |-> <<>>, ctor |-> 0, first |-> 0]

\* RadarDataStreamer.__enter__: the file is opened
ReaderEnter(r) == [r EXCEPT !.state = "open"]

\* RadarDataStreamer.__exit__: the file is closed
ReaderExit(r) == [r EXCEPT !.state = "closed", !.closes = @ + 1]

\* VideoWriter(output_path, im_width, im_height, frame_rate, quality_factor)
VideoWriterInit(e, path, w, h, i) ==
    [e EXCEPT !.state = "constructed", !.path = path, !.width = w, !.height = h,
              !.ctor = @ + 1, !.first = i]

\* VideoWriter.__call__(im_rgb)
VideoWriterCall(e, im) == [e EXCEPT !.frames = Append(@, im)]

Sessions == 1..MaxRadars

Terminal == {"returned", "exit", "raised"}

TypeOK ==
    /\ pc \in {"start", "build_paths", "for_io_path", "check_exists", "for_frame",
               "overlay", "setup_display", "setup_writer", "enter_context",
               "write_frame", "display"} \cup Terminal
    /\ point_cloud \in BOOLEAN
    /\ idx \in 0..MaxRadars
    /\ video_writer \in 0..MaxRadars
    /\ fig \in {"none", "shown"}
    /\ data_streamer \in {"None", "created", "running", "suspended", "finished"}
    /\ err \in {"none", "SystemExit", "NameError", "DecodeError", "CorruptStreamError",
               "DisplayError"}

\* ------------------------------------------------------------------ Init
Init ==
    /\ pc = "start"
    /\ output_dir \in {None, <<"out">>}
    /\ point_cloud \in BOOLEAN
    /\ \E n \in 1..MaxRadars : radar_name = SubSeq(RadarNamePool, 1, n)
    /\ fs \in SUBSET CandidatePaths(radar_name, point_cloud)
    /\ fig = "none"
    /\ artist = None
    /\ input_output_paths = <<>>
    /\ idx = 0
    /\ video_writer = 0
    /\ data_streamer = "None"
    /\ reader = [j \in Sessions |-> NoReader]
    /\ stream = [j \in Sessions |-> <<>>]
    /\ encoder = [j \in Sessions |-> NoEncoder]
    /\ raw_data = NoRecord
    /\ im_rgb = NoFrame
    /\ im_height = 0
    /\ im_width = 0
    /\ displayed = <<>>
    /\ err = "none"
    /\ rpc = "idle"
    /\ pts = <<>>
    /\ im_pts = <<>>
    /\ kpt = 0
    /\ pc_image = {}

\* --------------------------------------------------------------- actions
\* ShowFigure with the figure left for the first frame to open
ShowFigureDeferred ==
    /\ pc = "start"
    /\ artist' = None
    /\ pc' = "build_paths"
    /\ UNCHANGED <<rvars, fig, output_dir, point_cloud, radar_name, fs, input_output_paths,
                   idx, video_writer, data_streamer, reader, stream, encoder,
                   raw_data, im_rgb, im_height, im_width, displayed, err>>

\* lines 56-58: fig = plt.figure(); fig.show(); artist = None
ShowFigure ==
    /\ pc = "start"
    /\ fig' = "shown"
    /\ artist' = None
    /\ pc' = "build_paths"
    /\ UNCHANGED <<rvars, output_dir, point_cloud, radar_name, fs, input_output_paths, idx,
                   video_writer, data_streamer, reader, stream, encoder, raw_data,
                   im_rgb, im_height, im_width, displayed, err>>

\* lines 60-77: one IOPath per requested radar name, in the order given
BuildPaths ==
    /\ pc = "build_paths"
    /\ input_output_paths' = [i \in 1..Len(radar_name) |-> MkIOPath(radar_name[i])]
    /\ pc' = "for_io_path"
    /\ UNCHANGED <<rvars, output_dir, point_cloud, radar_name, fs, fig, artist, idx,
                   video_writer, data_streamer, reader, stream, encoder, raw_data,
                   im_rgb, im_height, im_width, displayed, err>>

\* lines 80-82: the next io_path, with video_writer and data_streamer reset;
\* main() returns when the list is exhausted
ForIoPath ==
    /\ pc = "for_io_path"
    /\ IF idx < Len(input_output_paths)
       THEN /\ idx' = idx + 1
            /\ video_writer' = 0
            /\ data_streamer' = "None"
            /\ pc' = "check_exists"
       ELSE /\ pc' = "returned"
            /\ UNCHANGED <<idx, video_writer, data_streamer>>
    /\ UNCHANGED <<rvars, output_dir, point_cloud, radar_name, fs, fig, artist,
                   input_output_paths, reader, stream, encoder, raw_data, im_rgb,
                   im_height, im_width, displayed, err>>

\* CheckExists with a missing input skipped (continue) instead of sys.exit
CheckExistsSkip ==
    /\ pc = "check_exists"
    /\ IF InputPathOf(input_output_paths[idx]) \notin fs
       THEN /\ pc' = "for_io_path"
            /\ UNCHANGED <<data_streamer, err>>
       ELSE /\ data_streamer' = "created"
            /\ pc' = "for_frame"
            /\ UNCHANGED err
    /\ UNCHANGED <<rvars, output_dir, point_cloud, radar_name, fs, fig, artist,
                   input_output_paths, idx, video_writer, reader, stream, encoder,
                   raw_data, im_rgb, im_height, im_width, displayed>>

\* CheckExists with the test made over every input still to come
CheckExistsAny ==
    /\ pc = "check_exists"
    /\ IF \E j \in idx..Len(input_output_paths) :
             InputPathOf(input_output_paths[j]) \notin fs
       THEN /\ pc' = "exit"
            /\ err' = "SystemExit"
            /\ UNCHANGED data_streamer
       ELSE /\ data_streamer' = "created"
            /\ pc' = "for_frame"
            /\ UNCHANGED err
    /\ UNCHANGED <<rvars, output_dir, point_cloud, radar_name, fs, fig, artist,
                   input_output_paths, idx, video_writer, reader, stream, encoder,
                   raw_data, im_rgb, im_height, im_width, displayed>>

\* lines 84-94: sys.exit when the input file is missing, else the generator is
\* created (its body does not run before the first next())
CheckExists ==
    /\ pc = "check_exists"
    /\ IF InputPathOf(input_output_paths[idx]) \notin fs
       THEN /\ pc' = "exit"
            /\ err' = "SystemExit"
            /\ UNCHANGED data_streamer
       ELSE /\ data_streamer' = "created"
            /\ pc' = "for_frame"
            /\ UNCHANGED err
    /\ UNCHANGED <<rvars, output_dir, point_cloud, radar_name, fs, fig, artist,
                   input_output_paths, idx, video_writer, reader, stream, encoder,
                   raw_data, im_rgb, im_height, im_width, displayed>>

\* StackExit with the streamer never registered on the stack: nothing is closed
StackExitLeak(r) == r

\* lines 130-132 and 154-156: leaving the generator's "with ExitStack() as
\* stack" block calls the streamer's __exit__
StackExit(r) == ReaderExit(r)

\* line 96, first next() of the generator; lines 128-132 and 151-156: the
\* streamer is entered on the generator's own ExitStack, which opens the file
GeneratorStart ==
    /\ pc = "for_frame"
    /\ data_streamer = "created"
    /\ reader' = [reader EXCEPT ![idx] = ReaderEnter(@)]
    /\ \E recs \in Streams(idx, point_cloud) : stream' = [stream EXCEPT ![idx] = recs]
    /\ data_streamer' = "running"
    /\ UNCHANGED <<rvars, pc, output_dir, point_cloud, radar_name, fs, fig, artist,
                   input_output_paths, idx, video_writer, encoder, raw_data, im_rgb,
                   im_height, im_width, displayed, err>>

\* line 96 with lines 134-137 and 158-175: the generator runs to its next
\* record.  End of file leaves the with block and ends the for loop; a faulty
\* record raises through the with block and out of main(); an empty point
\* list is skipped (continue); anything else is rendered and yielded.
StreamerNext ==
    /\ pc = "for_frame"
    /\ data_streamer \in {"running", "suspended"}
    /\ LET i == reader[idx].pos + 1
       IN  IF i > Len(stream[idx])
           THEN /\ reader' = [reader EXCEPT ![idx] = StackExit(@)]
                /\ data_streamer' = "finished"
                /\ pc' = "for_io_path"
                /\ UNCHANGED <<raw_data, im_rgb, err>>
           ELSE LET rec == stream[idx][i]
                IN  IF IsFaulty(rec)
                    THEN /\ reader' = [reader EXCEPT ![idx] = StackExit(@)]
                         /\ data_streamer' = "finished"
                         /\ err' = ErrorOf(rec)
                         /\ pc' = "raised"
                         /\ UNCHANGED <<raw_data, im_rgb>>
                    ELSE IF point_cloud /\ Len(rec.point_cloud) = 0
                    THEN /\ reader' = [reader EXCEPT ![idx].pos = i]
                         /\ data_streamer' = "running"
                         /\ UNCHANGED <<pc, raw_data, im_rgb, err>>
                    ELSE /\ reader' = [reader EXCEPT ![idx].pos = i]
                         /\ data_streamer' = "suspended"
                         /\ raw_data' = rec
                         /\ im_rgb' = IF point_cloud
                                      THEN PointCloudImage(idx, i, rec)
                                      ELSE RadarImageStreamDisplay(idx, i, rec)
                         /\ pc' = "overlay"
                         /\ UNCHANGED err
    /\ UNCHANGED <<rvars, output_dir, point_cloud, radar_name, fs, fig, artist,
                   input_output_paths, idx, video_writer, stream, encoder,
                   im_height, im_width, displayed>>

\* lines 97-98: the frame's shape, then the metadata overlay
Overlay ==
    /\ pc = "overlay"
    /\ im_height' = im_rgb.shape[1]
    /\ im_width' = im_rgb.shape[2]
    /\ im_rgb' = overlay_metadata(raw_data, im_rgb)
    /\ pc' = "setup_display"
    /\ UNCHANGED <<rvars, output_dir, point_cloud, radar_name, fs, fig, artist,
                   input_output_paths, idx, video_writer, data_streamer, reader,
                   stream, encoder, raw_data, displayed, err>>

\* SetupDisplay with the image created anew for every frame
SetupDisplayEveryFrame ==
    /\ pc = "setup_display"
    /\ artist' = imshow(im_rgb)
    /\ pc' = "setup_writer"
    /\ UNCHANGED <<rvars, output_dir, point_cloud, radar_name, fs, fig, input_output_paths,
                   idx, video_writer, data_streamer, reader, stream, encoder,
                   raw_data, im_rgb, im_height, im_width, displayed, err>>

\* lines 100-103: the displayed image is created on the first frame
SetupDisplay ==
    /\ pc = "setup_display"
    /\ artist' = IF artist = None THEN imshow(im_rgb) ELSE artist
    /\ pc' = "setup_writer"
    /\ UNCHANGED <<rvars, output_dir, point_cloud, radar_name, fs, fig, input_output_paths,
                   idx, video_writer, data_streamer, reader, stream, encoder,
                   raw_data, im_rgb, im_height, im_width, displayed, err>>

\* SetupVideoWriter with the output path of the first io_path, as if the path
\* were derived once, outside the loop over the sessions
SetupVideoWriterFirstPath ==
    /\ pc = "setup_writer"
    /\ IF output_dir # None /\ video_writer = 0
       THEN /\ encoder' = [encoder EXCEPT ![idx] =
                              VideoWriterInit(@, input_output_paths[1].output_path,
                                              im_width, im_height, im_rgb.rec)]
            /\ video_writer' = idx
            /\ pc' = "enter_context"
       ELSE /\ pc' = "write_frame"
            /\ UNCHANGED <<encoder, video_writer>>
    /\ UNCHANGED <<rvars, output_dir, point_cloud, radar_name, fs, fig, artist,
                   input_output_paths, idx, data_streamer, reader, stream, raw_data,
                   im_rgb, im_height, im_width, displayed, err>>

\* SetupVideoWriter without the test of args.output_dir
SetupVideoWriterAlways ==
    /\ pc = "setup_writer"
    /\ IF video_writer = 0
       THEN /\ encoder' = [encoder EXCEPT ![idx] =
                              VideoWriterInit(@, input_output_paths[idx].output_path,
                                              im_width, im_height, im_rgb.rec)]
            /\ video_writer' = idx
            /\ pc' = "enter_context"
       ELSE /\ pc' = "write_frame"
            /\ UNCHANGED <<encoder, video_writer>>
    /\ UNCHANGED <<rvars, output_dir, point_cloud, radar_name, fs, fig, artist,
                   input_output_paths, idx, data_streamer, reader, stream, raw_data,
                   im_rgb, im_height, im_width, displayed, err>>

\* SetupVideoWriter with width and height passed in the order of im_rgb.shape
SetupVideoWriterSwapped ==
    /\ pc = "setup_writer"
    /\ IF output_dir # None /\ video_writer = 0
       THEN /\ encoder' = [encoder EXCEPT ![idx] =
                              VideoWriterInit(@, input_output_paths[idx].output_path,
                                              im_height, im_width, im_rgb.rec)]
            /\ video_writer' = idx
            /\ pc' = "enter_context"
       ELSE /\ pc' = "write_frame"
            /\ UNCHANGED <<encoder, video_writer>>
    /\ UNCHANGED <<rvars, output_dir, point_cloud, radar_name, fs, fig, artist,
                   input_output_paths, idx, data_streamer, reader, stream, raw_data,
                   im_rgb, im_height, im_width, displayed, err>>

\* lines 105-110: the VideoWriter is constructed when an output directory is
\* given and this session has none yet
SetupVideoWriter ==
    /\ pc = "setup_writer"
    /\ IF output_dir # None /\ video_writer = 0
       THEN /\ encoder' = [encoder EXCEPT ![idx] =
                              VideoWriterInit(@, input_output_paths[idx].output_path,
                                              im_width, im_height, im_rgb.rec)]
            /\ video_writer' = idx
            /\ pc' = "enter_context"
       ELSE /\ pc' = "write_frame"
            /\ UNCHANGED <<encoder, video_writer>>
    /\ UNCHANGED <<rvars, output_dir, point_cloud, radar_name, fs, fig, artist,
                   input_output_paths, idx, data_streamer, reader, stream, raw_data,
                   im_rgb, im_height, im_width, displayed, err>>

\* line 112: video_writer = stack.enter_context(video_writer).  main() binds
\* no name "stack" (the ExitStacks live in the generators) and the module has
\* no such global: evaluating the name raises NameError, before __enter__ is
\* called, and nothing in main() catches it.
EnterContext ==
    /\ pc = "enter_context"
    /\ err' = "NameError"
    /\ pc' = "raised"
    /\ UNCHANGED <<rvars, output_dir, point_cloud, radar_name, fs, fig, artist,
                   input_output_paths, idx, video_writer, data_streamer, reader,
                   stream, encoder, raw_data, im_rgb, im_height, im_width,
                   displayed>>

\* WriteFrame with the display update left out of the loop: the next record
\* is pulled right after the write
WriteFrameThenPull ==
    /\ pc = "write_frame"
    /\ encoder' = IF video_writer # 0
                  THEN [encoder EXCEPT ![video_writer] = VideoWriterCall(@, im_rgb)]
                  ELSE encoder
    /\ pc' = "for_frame"
    /\ UNCHANGED <<rvars, output_dir, point_cloud, radar_name, fs, fig, artist,
                   input_output_paths, idx, video_writer, data_streamer, reader,
                   stream, raw_data, im_rgb, im_height, im_width, displayed, err>>

\* lines 114-116: the frame goes to the video writer, if there is one
WriteFrame ==
    /\ pc = "write_frame"
    /\ encoder' = IF video_writer # 0
                  THEN [encoder EXCEPT ![video_writer] = VideoWriterCall(@, im_rgb)]
                  ELSE encoder
    /\ pc' = "display"
    /\ UNCHANGED <<rvars, output_dir, point_cloud, radar_name, fs, fig, artist,
                   input_output_paths, idx, video_writer, data_streamer, reader,
                   stream, raw_data, im_rgb, im_height, im_width, displayed, err>>

\* lines 118-121: artist.set_data(im_rgb); fig.canvas.draw(); plt.pause(1e-4)
Display ==
    /\ pc = "display"
    /\ displayed' = Append(displayed, im_rgb)
    /\ pc' = "for_frame"
    /\ UNCHANGED <<rvars, output_dir, point_cloud, radar_name, fs, fig, artist,
                   input_output_paths, idx, video_writer, data_streamer, reader,
                   stream, encoder, raw_data, im_rgb, im_height, im_width, err>>

\* lines 118-121 when the display surface fails: set_data, draw or pause
\* raises, and nothing in main() catches it
DisplayFails ==
    /\ pc = "display"
    /\ err' = "DisplayError"
    /\ pc' = "raised"
    /\ UNCHANGED <<rvars, output_dir, point_cloud, radar_name, fs, fig, artist,
                   input_output_paths, idx, video_writer, data_streamer, reader,
                   stream, encoder, raw_data, im_rgb, im_height, im_width,
                   displayed>>

\* lines 130-137 and 154-175 after an exception in the loop body of main():
\* the generator is still suspended at its yield, and main() neither closes
\* it nor catches the exception.  The interpreter may finalize the generator
\* once the exception has left main() (GeneratorExit at the yield, which
\* leaves the with block), or never.
GeneratorFinalize ==
    /\ pc = "raised"
    /\ data_streamer = "suspended"
    /\ reader' = [reader EXCEPT ![idx] = StackExit(@)]
    /\ data_streamer' = "finished"
    /\ UNCHANGED <<rvars, pc, output_dir, point_cloud, radar_name, fs, fig, artist,
                   input_output_paths, idx, video_writer, stream, encoder, raw_data,
                   im_rgb, im_height, im_width, displayed, err>>

Next ==
    \/ ShowFigure
    \/ BuildPaths
    \/ ForIoPath
    \/ CheckExists
    \/ GeneratorStart
    \/ StreamerNext
    \/ Overlay
    \/ SetupDisplay
    \/ SetupVideoWriter
    \/ EnterContext
    \/ WriteFrame
    \/ Display
    \/ DisplayFails
    \/ GeneratorFinalize

Spec == Init /\ [][Next]_vars

\* ------------------------------------------------------- claim vocabulary
NumPaths == Len(input_output_paths)

\* the process has ended: main() returned, sys.exit, or an uncaught exception
Ended == pc \in Terminal

\* session j is over: the loop has moved past it, or the process has ended in it
SessionEnded(j) ==
    /\ 1 <= j /\ j <= idx
    /\ \/ j < idx
       \/ Ended
       \/ pc = "for_io_path"

Opened(j) == reader[j].state # "unopened"

InputExists(j) == InputPathOf(input_output_paths[j]) \in fs

AllValid(j) == \A i \in 1..Len(stream[j]) : ~IsFaulty(stream[j][i])

\* the positions of the records of session j that yield a frame
Emitting(j) ==
    { i \in 1..Len(stream[j]) :
        /\ \A k \in 1..i : ~IsFaulty(stream[j][k])
        /\ point_cloud => Len(stream[j][i].point_cloud) > 0 }

NonEmpty(j) == { i \in 1..Len(stream[j]) : Len(stream[j][i].point_cloud) > 0 }

\* the record positions of session j among a sequence of frames, in order
RECURSIVE RecsOf(_, _)
RecsOf(frames, j) ==
    IF frames = <<>> THEN <<>>
    ELSE IF Head(frames).session = j
         THEN <<Head(frames).rec>> \o RecsOf(Tail(frames), j)
         ELSE RecsOf(Tail(frames), j)

\* 1, 2, ..., n
Iota(n) == [i \in 1..n |-> i]

Min(S) == CHOOSE x \in S : \A y \in S : x <= y

\* C1: whenever a session that has an output directory and has constructed its
\* VideoWriter is over (end of stream or an exception), that VideoWriter has
\* been finalized and released.
C1_EncoderFinalized ==
    \A j \in Sessions :
        (SessionEnded(j) /\ output_dir # None /\ encoder[j].ctor > 0)
            => encoder[j].state = "closed"

\* C2: an image-mode session with an output directory whose input file holds
\* N >= 1 valid records has, once it is over, written exactly N frames to its
\* VideoWriter, one per record and in record order.
C2_OneFramePerRecord ==
    \A j \in Sessions :
        (/\ SessionEnded(j) /\ Opened(j)
         /\ ~point_cloud /\ output_dir # None
         /\ Len(stream[j]) >= 1 /\ AllValid(j))
            => RecsOf(encoder[j].frames, j) = Iota(Len(stream[j]))

\* the session has taken a frame past the "setup video writer" step
PastSetup(j) ==
    \/ idx = j /\ pc \in {"enter_context", "write_frame", "display"}
    \/ idx = j /\ pc = "raised" /\ err = "NameError"
    \/ RecsOf(displayed, j) # <<>>

\* C3: in a session with an output directory the VideoWriter is constructed
\* exactly once, at the first emitted frame, with that frame's width and
\* height and the session's output path, before any frame is written; it is
\* never constructed again.
C3_EncoderConstructedOnce ==
    \A j \in Sessions :
        /\ encoder[j].ctor <= 1
        /\ encoder[j].ctor = 1 =>
              /\ output_dir # None
              /\ Emitting(j) # {}
              /\ encoder[j].first = Min(Emitting(j))
              /\ LET rec == stream[j][encoder[j].first]
                     shape == IF point_cloud THEN <<imsize_y, imsize_x>> ELSE rec.shape
                 IN  /\ encoder[j].height = shape[1]
                     /\ encoder[j].width = shape[2]
              /\ encoder[j].path = input_output_paths[j].output_path
        /\ encoder[j].frames # <<>> =>
              /\ encoder[j].ctor = 1
              /\ \A n \in 1..Len(encoder[j].frames) :
                    encoder[j].frames[n].rec >= encoder[j].first
        /\ (output_dir # None /\ PastSetup(j)) => encoder[j].ctor = 1

\* a second session has constructed its VideoWriter, for a frame that is not square
C3_Witness ==
    /\ idx = 2 /\ pc = "enter_context"
    /\ encoder[2].ctor = 1
    /\ encoder[2].width # encoder[2].height

\* C4 as stated: when the process stops at a missing input file, every later
\* radar name whose input file exists has been opened and streamed.
C4_OnlyMissingSessionSkipped ==
    pc = "exit" =>
        \A j \in (idx + 1)..NumPaths : InputExists(j) => Opened(j)

\* C4 amended: a missing input file ends the whole run: no radar name after it
\* is ever opened or streamed, whether its input file exists or not.
C4_MissingFileEndsRun ==
    \A m \in 1..NumPaths : \A j \in (m + 1)..NumPaths :
        ~InputExists(m) =>
            /\ idx <= m
            /\ ~Opened(j)
            /\ encoder[j] = NoEncoder
            /\ RecsOf(displayed, j) = <<>>

\* the run has stopped at a missing file while a later input file exists
C4_Witness ==
    /\ pc = "exit"
    /\ \E j \in (idx + 1)..NumPaths : InputExists(j)

\* C5: sys.exit happens at the first radar name whose input file is missing;
\* every earlier session has then run to completion (all its records read,
\* every frame displayed, its reader closed) and no later session has been
\* opened or has passed a frame to any sink.
C5_FirstMissingEndsBatch ==
    pc = "exit" =>
        /\ err = "SystemExit"
        /\ ~InputExists(idx)
        /\ \A j \in 1..(idx - 1) :
              /\ InputExists(j)
              /\ reader[j].state = "closed"
              /\ reader[j].pos = Len(stream[j])
              /\ AllValid(j)
              /\ Cardinality(Emitting(j)) = Len(RecsOf(displayed, j))
        /\ \A j \in (idx + 1)..NumPaths :
              /\ ~Opened(j)
              /\ encoder[j].frames = <<>>
              /\ RecsOf(displayed, j) = <<>>

\* the run stops at the second radar name, after a first session that displayed frames
C5_Witness ==
    /\ pc = "exit"
    /\ idx = 2
    /\ RecsOf(displayed, 1) # <<>>

\* C6 as stated: when the missing file is reported, no encoder and no display
\* resource has been opened at any earlier point of the run.
C6_NoResourceBeforeError ==
    pc = "exit" =>
        /\ encoder[idx].ctor = 0
        /\ fig = "none"

\* C6 amended: when the missing file is reported, nothing of that session has
\* been set up (no generator, no reader, no VideoWriter, no frame displayed),
\* but the display figure has been open since the start of the run.
C6_OnlyFigureOpenBeforeError ==
    pc = "exit" =>
        /\ encoder[idx] = NoEncoder
        /\ video_writer = 0
        /\ reader[idx] = NoReader
        /\ data_streamer = "None"
        /\ RecsOf(displayed, idx) = <<>>
        /\ fig = "shown"

\* the very first radar name has no input file
C6_Witness ==
    /\ pc = "exit"
    /\ idx = 1
    /\ ~InputExists(1)

\* C7: a decode or framing error raised while streaming a session does not end
\* the run while radar names remain: the remaining sessions are still opened.
C7_ErrorAbortsOnlySession ==
    (pc = "raised" /\ err \in {"DecodeError", "CorruptStreamError"}) =>
        \A j \in (idx + 1)..NumPaths : InputExists(j) => Opened(j)

\* C8: once a session is over, on whichever exit path, the file its reader
\* opened has been closed, exactly once.
C8_ReaderReleasedOnce ==
    \A j \in Sessions :
        (SessionEnded(j) /\ Opened(j)) =>
            /\ reader[j].state = "closed"
            /\ reader[j].closes = 1

\* session j holds an open resource
HoldsResource(j) ==
    \/ reader[j].state = "open"
    \/ encoder[j].state \in {"constructed", "open"}

\* C9: when the reader of a later session is opened, every earlier session is
\* fully closed (reader released, VideoWriter absent or finalized), and no two
\* sessions hold open resources together.
C9_SessionsSequential ==
    \A j \in Sessions : \A k \in Sessions :
        j < k =>
            /\ Opened(k) =>
                  /\ reader[j].state = "closed"
                  /\ reader[j].closes = 1
                  /\ encoder[j].state \in {"none", "closed"}
            /\ ~(HoldsResource(j) /\ HoldsResource(k))

\* the second session's reader is open after a first session that read records
C9_Witness ==
    /\ reader[2].state = "open"
    /\ Len(stream[1]) >= 1
    /\ reader[1].pos = Len(stream[1])

\* C10: in point-cloud mode, once a session over a file of valid records is
\* over, each sink has received exactly one frame per record with a non-empty
\* point list, and a file whose records are all empty has constructed no
\* VideoWriter.
C10_EmptyPointCloudsSkipped ==
    \A j \in Sessions :
        (SessionEnded(j) /\ Opened(j) /\ point_cloud /\ AllValid(j)) =>
            /\ Len(RecsOf(displayed, j)) = Cardinality(NonEmpty(j))
            /\ output_dir # None =>
                  Len(RecsOf(encoder[j].frames, j)) = Cardinality(NonEmpty(j))
            /\ NonEmpty(j) = {} => encoder[j].ctor = 0

\* the members of S up to n, in ascending order
RECURSIVE Ascending(_, _)
Ascending(S, n) ==
    IF n = 0 THEN <<>>
    ELSE Ascending(S, n - 1) \o (IF n \in S THEN <<n>> ELSE <<>>)

\* the positions of the frames session j has yielded so far, in order
Yielded(j) == Ascending(Emitting(j), reader[j].pos)

Front(seq) == SubSeq(seq, 1, Len(seq) - 1)

\* the last yielded frame of session j is still in the loop body, or the run
\* ended in the loop body with it
InLoopBody(j) ==
    /\ idx = j
    /\ \/ pc \in {"overlay", "setup_display", "setup_writer", "enter_context",
                  "write_frame", "display"}
       \/ pc = "raised" /\ err \in {"NameError", "DisplayError"}

\* C11: without an output directory no VideoWriter is ever constructed and no
\* frame is written in any session, while every frame a session has yielded
\* has been handed to the display, in order, once its loop body is through.
C11_DisplayOnly ==
    output_dir = None =>
        \A j \in Sessions :
            /\ encoder[j] = NoEncoder
            /\ video_writer = 0
            /\ RecsOf(displayed, j) =
                  IF InLoopBody(j) THEN Front(Yielded(j)) ELSE Yielded(j)

\* a display-only run is in its second session and has displayed frames of both
C11_Witness ==
    /\ output_dir = None
    /\ pc = "for_io_path" /\ idx = 2
    /\ Len(RecsOf(displayed, 1)) >= 2
    /\ Len(RecsOf(displayed, 2)) >= 2

\* C12: for every requested radar name the input path is <name>_images.pbs
\* (image mode) or <name>_points.pbs (point-cloud mode) under the input
\* directory, and the output path is <name>.mp4 (image mode) or
\* <name>_points.mp4 (point-cloud mode) under the output directory.
C12_DerivedPaths ==
    \A j \in 1..NumPaths :
        LET name == radar_name[j]
            io   == input_output_paths[j]
        IN  /\ InputPathOf(io) =
                  join(input_dir,
                       <<name, IF point_cloud THEN "_points.pbs" ELSE "_images.pbs">>)
            /\ output_dir # None =>
                  io.output_path =
                      join(output_dir,
                           <<name, IF point_cloud THEN "_points.mp4" ELSE ".mp4">>)
            /\ PcvIOPath(name)[1] = join(input_dir, <<name, "_points.pbs">>)
            /\ output_dir # None =>
                  PcvIOPath(name)[2] = join(output_dir, <<name, "_points.mp4">>)

\* C14: a failure of the display while a frame is pushed is not fatal: it never
\* is the exception that ends the run, so the remaining records of the session
\* are still streamed and written.
C14_DisplayFailureNonFatal ==
    ~(Ended /\ err = "DisplayError")

Abs(n) == IF n < 0 THEN -n ELSE n

\* lab reads "<frame_id>:<timestamp to 2 decimals>" for record rec: the frame
\* id, a colon, and the number of hundredths nearest to the timestamp
IsLabelOf(rec, lab) ==
    /\ Len(lab) = 3
    /\ lab[1] = rec.frame_id
    /\ lab[2] = ":"
    /\ Abs(rec.timestamp - 10 * lab[3]) <= 5

\* frame f carries the label of the record it was rendered from
Stamped(f) ==
    /\ f.session \in Sessions
    /\ f.rec \in 1..Len(stream[f.session])
    /\ IsLabelOf(stream[f.session][f.rec], f.label)

\* C15: every frame that reaches the display or a VideoWriter, and the frame
\* main() is about to hand to them, carries the label
\* <frame_id>:<timestamp to 2 decimals> of the record it was rendered from.
C15_EveryFrameLabelled ==
    /\ \A n \in 1..Len(displayed) : Stamped(displayed[n])
    /\ \A j \in Sessions : \A n \in 1..Len(encoder[j].frames) :
          Stamped(encoder[j].frames[n])
    /\ pc \in {"setup_display", "setup_writer", "enter_context", "write_frame",
               "display"} =>
          /\ Stamped(im_rgb)
          /\ raw_data = stream[im_rgb.session][im_rgb.rec]

\* frames of two sessions are on the display, the first with a timestamp that
\* rounds up, the last with one that rounds down
C15_Witness ==
    /\ Len(displayed) >= 2
    /\ LET f == displayed[1]
           g == displayed[Len(displayed)]
       IN  /\ f.session # g.session
           /\ 10 * f.label[3] > stream[f.session][f.rec].timestamp
           /\ 10 * g.label[3] < stream[g.session][g.rec].timestamp

\* C16: records are processed one at a time.  Whenever main() is about to pull
\* the next record, every frame the session has yielded has been overlaid and
\* handed to the display and, when a VideoWriter exists, written; inside the
\* loop body only the current frame is outstanding.  A frame is displayed
\* only after it has been written, when a VideoWriter exists.
C16_OneRecordAtATime ==
    /\ (pc = "for_frame" /\ idx >= 1) =>
          /\ RecsOf(displayed, idx) = Yielded(idx)
          /\ video_writer # 0 =>
                RecsOf(encoder[video_writer].frames, idx) = Yielded(idx)
    /\ \A j \in Sessions :
          /\ InLoopBody(j) =>
                /\ RecsOf(displayed, j) = Front(Yielded(j))
                /\ im_rgb.rec = Yielded(j)[Len(Yielded(j))]
          /\ \A n \in 1..Len(displayed) :
                /\ displayed[n].label # None
                /\ (displayed[n].session = j /\ encoder[j].ctor > 0) =>
                      \E m \in 1..Len(encoder[j].frames) :
                          encoder[j].frames[m] = displayed[n]
    /\ (pc = "display" /\ video_writer # 0) =>
          /\ encoder[video_writer].frames # <<>>
          /\ encoder[video_writer].frames[Len(encoder[video_writer].frames)] = im_rgb

\* the second frame of a session is in the loop body, the first is on the display
C16_Witness ==
    /\ pc = "overlay"
    /\ idx >= 1
    /\ Len(Yielded(idx)) >= 2
    /\ Len(RecsOf(displayed, idx)) >= 1

\* C17: the VideoWriter reference is local to a session.  It is None when a
\* session starts and refers to no session but the current one; a VideoWriter
\* is opened on the output path of the radar name of its own session, and
\* holds frames of that session only.
C17_EncoderSessionLocal ==
    /\ pc = "check_exists" => (video_writer = 0 /\ data_streamer = "None")
    /\ video_writer \in {0, idx}
    /\ (pc \in {"enter_context", "write_frame", "display"} /\ video_writer # 0) =>
          video_writer = im_rgb.session
    /\ \A j \in Sessions :
          /\ encoder[j].ctor > 0 =>
                /\ j <= NumPaths
                /\ encoder[j].path = join(output_dir, <<radar_name[j], ".mp4">>)
                /\ \A k \in Sessions : (k # j /\ encoder[k].ctor > 0) =>
                      encoder[k].path # encoder[j].path
          /\ \A n \in 1..Len(encoder[j].frames) : encoder[j].frames[n].session = j

\* the second session has constructed its VideoWriter after a first session
\* that was opened and is over
C17_Witness ==
    /\ idx = 2
    /\ video_writer = 2
    /\ encoder[2].ctor = 1
    /\ reader[1].state = "closed"
    /\ pc = "raised"

\* the raster size of the frame rendered from record i of session j
ShapeOfFrame(j, i) ==
    IF point_cloud THEN <<imsize_y, imsize_x>> ELSE stream[j][i].shape

\* the displayed image is the one made for the first frame any session yielded
ArtistIsOfFirstFrame ==
    /\ artist # None =>
          \E j \in Sessions :
              /\ Yielded(j) # <<>>
              /\ \A k \in 1..(j - 1) : Yielded(k) = <<>>
              /\ artist = ShapeOfFrame(j, Yielded(j)[1]) \o <<j, Yielded(j)[1]>>
    /\ (displayed # <<>> \/ pc \in {"setup_writer", "enter_context", "write_frame",
                                    "display"}) => artist # None
    /\ (artist = None /\ idx >= 1) => \A j \in 1..(idx - 1) : Yielded(j) = <<>>

\* C18: the displayed image (artist) is created at most once per run, for the
\* first frame any session yields and with that frame's shape; once created it
\* is never created again or dropped, and every frame of every session is
\* displayed on it, whatever the frame's dimensions.
C18_ArtistCreatedOnce ==
    /\ []ArtistIsOfFirstFrame
    /\ [][artist # None => artist' = artist]_vars

\* a frame of the second session, of another shape than the displayed image,
\* has been displayed on the image made in the first session
C18_Witness ==
    /\ artist # None
    /\ artist[3] = 1
    /\ \E n \in 1..Len(displayed) :
          /\ displayed[n].session = 2
          /\ displayed[n].shape # <<artist[1], artist[2]>>

\* ------------------------------------- rendering one point cloud record
\* convert_point_cloud_stream, lines 159-175, for one record with a non-empty
\* point list.  Coordinates are exact, in steps of 1/SubPixel of a pixel
\* (im_res / SubPixel meters); a raster coordinate is kept as its numerator
\* over SubPixel.

\* coordinate steps per pixel
SubPixel == 2
\* the point coordinates tried lie within this many steps of a window edge
EdgeReach == 2
\* at most this many points in one record
MaxPoints == 2

\* a length in meters, in coordinate steps
Steps(m) == m * im_res_inv * SubPixel

XCoords == { Steps(xmin) + o : o \in (-EdgeReach)..EdgeReach }
           \cup { Steps(xmax) + o : o \in (-EdgeReach)..EdgeReach }

YCoords == { Steps(ymin) + o : o \in (-EdgeReach)..EdgeReach }
           \cup { Steps(ymax) + o : o \in (-EdgeReach)..EdgeReach }

\* (x, y, auxiliary value)
Points == { <<x, y, 0>> : x \in XCoords, y \in YCoords }

\* int(): truncation toward zero of num / den, den > 0
int(num, den) == IF num >= 0 THEN num \div den ELSE -((-num) \div den)

\* lines 164-165: im_pts[:,0] = (im_pts[:,0] - xmin) / im_res, and the same
\* for column 1 with ymin
ToRaster(p) == <<p[1] - Steps(xmin), p[2] - Steps(ymin), p[3]>>

\* cv2.circle(pc_image, center, radius=1, thickness=-1): the filled disc of
\* radius 1 around center = (column, row), clipped to the raster of
\* imsize_y rows and imsize_x columns
circle(center) ==
    { <<center[2] + dr, center[1] + dc>> :
        <<dr, dc>> \in { d \in (-1..1) \X (-1..1) : d[1] * d[1] + d[2] * d[2] <= 1 } }
    \cap ((0..(imsize_y - 1)) \X (0..(imsize_x - 1)))

\* lines 168-173: the marker of one raster point, center=(int(y), int(x))
Marker(ip) == circle(<<int(ip[2], SubPixel), int(ip[1], SubPixel)>>)

\* one record with a non-empty point list is about to be rendered; main() is
\* waiting in its for statement of a display-only point cloud run
RenderInit ==
    /\ pc = "for_frame"
    /\ output_dir = None
    /\ point_cloud = TRUE
    /\ radar_name = SubSeq(RadarNamePool, 1, 1)
    /\ fs = CandidatePaths(radar_name, TRUE)
    /\ fig = "shown"
    /\ artist = None
    /\ input_output_paths = <<MkIOPath(radar_name[1])>>
    /\ idx = 1
    /\ video_writer = 0
    /\ data_streamer = "running"
    /\ reader = [j \in Sessions |-> IF j = 1 THEN ReaderEnter(NoReader) ELSE NoReader]
    /\ stream = [j \in Sessions |-> <<>>]
    /\ encoder = [j \in Sessions |-> NoEncoder]
    /\ raw_data = NoRecord
    /\ im_rgb = NoFrame
    /\ im_height = 0
    /\ im_width = 0
    /\ displayed = <<>>
    /\ err = "none"
    /\ rpc = "scale"
    /\ pts \in UNION { [1..n -> Points] : n \in 1..MaxPoints }
    /\ im_pts = <<>>
    /\ kpt = 0
    /\ pc_image = {}

mainvars == <<pc, output_dir, point_cloud, radar_name, fs, fig, artist,
              input_output_paths, idx, video_writer, data_streamer, reader, stream,
              encoder, raw_data, im_rgb, im_height, im_width, displayed, err>>

\* lines 163-166: the points in raster coordinates, and an all-zero raster
ScalePoints ==
    /\ rpc = "scale"
    /\ im_pts' = [i \in 1..Len(pts) |-> ToRaster(pts[i])]
    /\ pc_image' = {}
    /\ kpt' = 1
    /\ rpc' = "draw"
    /\ UNCHANGED <<mainvars, pts>>

\* lines 168-173: one turn of the loop over im_pts
DrawCircle ==
    /\ rpc = "draw"
    /\ kpt <= Len(im_pts)
    /\ pc_image' = pc_image \cup Marker(im_pts[kpt])
    /\ kpt' = kpt + 1
    /\ UNCHANGED <<mainvars, rpc, pts, im_pts>>

\* line 175: yield pc, pc_image
YieldImage ==
    /\ rpc = "draw"
    /\ kpt > Len(im_pts)
    /\ rpc' = "yield"
    /\ UNCHANGED <<mainvars, pts, im_pts, kpt, pc_image>>

RenderNext ==
    \/ ScalePoints
    \/ DrawCircle
    \/ YieldImage

RenderSpec == RenderInit /\ [][RenderNext]_vars

\* the point lies in the imaging window x in [xmin, xmax], y in [ymin, ymax]
InWindow(p) ==
    /\ Steps(xmin) <= p[1] /\ p[1] <= Steps(xmax)
    /\ Steps(ymin) <= p[2] /\ p[2] <= Steps(ymax)

\* the raster of a point list
RECURSIVE Rendered(_)
Rendered(plist) ==
    IF plist = <<>> THEN {}
    ELSE Marker(ToRaster(Head(plist))) \cup Rendered(Tail(plist))

\* C13: a point outside the imaging window never changes a pixel: the raster
\* yielded for a point list is the raster of its in-window points alone.
C13_OutOfWindowNeverDrawn ==
    rpc = "yield" => pc_image = Rendered(SelectSeq(pts, InWindow))

====
